---- MODULE Spec2Model ----
(***************************************************************************)
(* Model of the Pinger deployment of src/pinger.py (the prober) and of the  *)
(* Receiver and NodeKiller deployments of src/receiver.py.  The prober is  *)
(* checked under Spec, against a target that answers with any response;    *)
(* the receiver side is checked under ReceiverSpec, against any probes.    *)
(*                                                                         *)
(* Scheduling.  start_requesting is a coroutine (async def): it runs on    *)
(* the replica's event loop and gives the loop up only at                  *)
(* `await asyncio.sleep(2)`; requests.post is a blocking call, so no other *)
(* coroutine runs while a request is in flight.  The variable on_loop      *)
(* names the holder of the event loop.  stop_requesting is a plain `def`   *)
(* endpoint of the FastAPI app: FastAPI runs such an endpoint on a worker  *)
(* thread, so it may run whenever the event-loop thread gives up the       *)
(* interpreter, which it does while it blocks in requests.post.  Stop is   *)
(* therefore enabled in every state.  reconfigure is a plain method the    *)
(* hosting framework calls on the event loop: it starts when the loop is   *)
(* free and keeps it until it returns.                                     *)
(*                                                                         *)
(* Strings that the code takes apart (the failure reasons) are sequences   *)
(* of one-character strings; a one-character string is a sequence of       *)
(* length 1.  The metrics objects and the console output are not modelled.  *)
(*                                                                         *)
(* Receiver side.  NodeKiller runs `ray stop -f` on its own node: when the *)
(* command succeeds every process of that node stops, NodeKiller and the   *)
(* Receiver replicas placed on that node included, and nothing on the node *)
(* takes a step afterwards (the restart of replicas by the hosting         *)
(* framework is not modelled).  The placement of the Receiver replicas is  *)
(* chosen by the framework: colocated[r] says whether replica r shares     *)
(* the node of NodeKiller.                                                 *)
(***************************************************************************)
EXTENDS Integers, Sequences, FiniteSets, TLC

\* ---- bounds of the model ----
MaxStartCalls == 2      \* calls of /start that can be pending at once
MaxRequests == 3        \* requests sent over the life of the instance
MaxProbes == 2          \* probes that reach the Receiver

\* ---- constants of the program ----
DEFAULT_BEARER_TOKEN == "default"
DEFAULT_TARGET_URL == "http://google.com/"
DEFAULT_KILL_INTERVAL == 1000000
SPARE == "SPARE"
KILL == "KILL"
NumReceiverReplicas == 2

\* ---- inputs ----
Tasks == 1..MaxStartCalls
timeout == <<"t", "i", "m", "e", "o", "u", "t">>
overload == <<"o", "v", "e", "r", "l", "o", "a", "d">>
ok == <<"o", "k">>
\* the responses of the target: <<status code, text>>
Responses == {<<200, ok>>, <<503, timeout>>, <<503, overload>>}
\* repr(e) of the exceptions requests.post raises
ExceptionReprs == {<<"E", "r", "r">>}
\* the configurations pushed to reconfigure
Configs ==
    { <<>>,
      [kill_interval |-> 0],
      [kill_interval |-> 1, target_url |-> "http://target/"],
      [kill_interval |-> 2, bearer_token |-> "secret"] }

\* the Receiver replicas and the probes sent to them
Replicas == 1..NumReceiverReplicas
Probes == 1..MaxProbes
\* the JSON bodies of the probes
Bodies ==
    { <<>>, [kill_node |-> "True"], [kill_node |-> "False"],
      [kill_node |-> "true"] }

VARIABLES
    kill_interval, target_url, bearer_token, live,
    total_num_requests, total_successful_requests,
    total_failed_requests, total_kill_requests,
    current_num_requests, current_successful_requests,
    current_failed_requests, current_kill_requests,
    failed_response_counts, failed_response_reasons,
    pc,          \* pc[t]: where the call t of start_requesting stands
    json_payload,\* json_payload[t]: the kill indicator of the request of t
    on_loop,     \* holder of the event loop: 0 free, t a start call, -1 reconfigure
    rpc,         \* where the call of reconfigure stands
    config,      \* the argument of the last call of reconfigure
    was_live,    \* history: live when the last reconfigure was called
    sent_at,     \* history: current_num_requests when the request in flight of t was built
    stopped,     \* history: the calls that were inside the loop at a stop and have not returned
    seen,        \* history: the bag of <<status code, reason, class>> of the counted requests
    colocated,   \* colocated[r]: Receiver replica r is on the node of NodeKiller
    node_alive,  \* the node of NodeKiller is running
    rq,          \* rq[q]: where the call of Receiver.__call__ for probe q stands
    request_json,\* request_json[q]: the JSON body of probe q
    replica,     \* replica[q]: the Receiver replica that handles probe q
    kcall,       \* kcall[q]: where the call of NodeKiller.kill_node for probe q stands
    terminations \* history: the number of times the node was stopped

counters == <<total_num_requests, total_successful_requests,
              total_failed_requests, total_kill_requests,
              current_num_requests, current_successful_requests,
              current_failed_requests, current_kill_requests>>
totals == <<total_num_requests, total_successful_requests,
            total_failed_requests, total_kill_requests>>
currents == <<current_num_requests, current_successful_requests,
              current_failed_requests, current_kill_requests>>
failures == <<failed_response_counts, failed_response_reasons>>
settings == <<kill_interval, target_url, bearer_token>>
calls == <<pc, json_payload, sent_at>>
reconf == <<rpc, config, was_live>>
pvars == <<settings, live, counters, failures, calls, on_loop, reconf, seen,
           stopped>>
rvars == <<colocated, node_alive, rq, request_json, replica, kcall,
           terminations>>
vars == <<pvars, rvars>>

\* dict.get(key, default)
Get(d, key, default) == IF key \in DOMAIN d THEN d[key] ELSE default

\* set(reason): the set of the characters of the string
SetOfString(s) == {<<s[i]>> : i \in 1..Len(s)}

\* the bag b with one more copy of x
Plus(b, x) == (x :> (Get(b, x, 0) + 1)) @@ b

\* a call of start_requesting is pending in these positions
LoopPcs == {"while", "post", "sleep"}

PingerInit ==
    /\ kill_interval = -1
    /\ target_url = ""
    /\ bearer_token = ""
    /\ live = FALSE
    /\ total_num_requests = 0
    /\ total_successful_requests = 0
    /\ total_failed_requests = 0
    /\ total_kill_requests = 0
    /\ current_num_requests = 0
    /\ current_successful_requests = 0
    /\ current_failed_requests = 0
    /\ current_kill_requests = 0
    /\ failed_response_counts = <<>>
    /\ failed_response_reasons = <<>>
    /\ pc = [t \in Tasks |-> "idle"]
    /\ json_payload = [t \in Tasks |-> SPARE]
    /\ on_loop = 0
    /\ rpc = "uncalled"
    /\ config = <<>>
    /\ was_live = FALSE
    /\ sent_at = [t \in Tasks |-> 0]
    /\ stopped = {}
    /\ seen = <<>>

\* no probe has reached the Receiver
NoProbes ==
    /\ node_alive = TRUE
    /\ rq = [q \in Probes |-> "none"]
    /\ request_json = [q \in Probes |-> <<>>]
    /\ replica = [q \in Probes |-> 0]
    /\ kcall = [q \in Probes |-> "none"]
    /\ terminations = 0

Init ==
    /\ PingerInit
    /\ colocated = [r \in Replicas |-> FALSE]
    /\ NoProbes

\* send_kill_request with `or` for `and`
send_kill_request_or ==
    \/ kill_interval <= 0
    \/ current_num_requests % kill_interval = kill_interval - 1

\* send_kill_request with the kill on the first request of each block
send_kill_request_first ==
    /\ kill_interval > 0
    /\ current_num_requests % kill_interval = 0

\* Pinger.send_kill_request
send_kill_request ==
    /\ kill_interval > 0
    /\ current_num_requests % kill_interval = kill_interval - 1

\* reset_current_counters that forgets current_failed_requests
reset_current_counters_partial ==
    /\ current_num_requests' = 0
    /\ current_successful_requests' = 0
    /\ current_kill_requests' = 0
    /\ UNCHANGED current_failed_requests

\* Pinger.reset_current_counters
reset_current_counters ==
    /\ current_num_requests' = 0
    /\ current_successful_requests' = 0
    /\ current_failed_requests' = 0
    /\ current_kill_requests' = 0

\* count_successful_request that counts a kill request as a kill only
count_successful_request_killonly(kill_request) ==
    /\ total_num_requests' = total_num_requests + 1
    /\ current_num_requests' = current_num_requests + 1
    /\ IF kill_request
       THEN /\ total_kill_requests' = total_kill_requests + 1
            /\ current_kill_requests' = current_kill_requests + 1
            /\ UNCHANGED <<total_successful_requests,
                           current_successful_requests>>
       ELSE /\ total_successful_requests' = total_successful_requests + 1
            /\ current_successful_requests' = current_successful_requests + 1
            /\ UNCHANGED <<total_kill_requests, current_kill_requests>>
    /\ UNCHANGED <<total_failed_requests, current_failed_requests, failures>>

\* Pinger.count_successful_request
count_successful_request(kill_request) ==
    /\ total_num_requests' = total_num_requests + 1
    /\ total_successful_requests' = total_successful_requests + 1
    /\ current_num_requests' = current_num_requests + 1
    /\ current_successful_requests' = current_successful_requests + 1
    /\ IF kill_request
       THEN /\ total_kill_requests' = total_kill_requests + 1
            /\ current_kill_requests' = current_kill_requests + 1
       ELSE UNCHANGED <<total_kill_requests, current_kill_requests>>
    /\ UNCHANGED <<total_failed_requests, current_failed_requests, failures>>

\* count_failed_request that overwrites the count of the status code with 1
count_failed_request_overwrite(status_code, reason) ==
    /\ total_num_requests' = total_num_requests + 1
    /\ total_failed_requests' = total_failed_requests + 1
    /\ current_num_requests' = current_num_requests + 1
    /\ current_failed_requests' = current_failed_requests + 1
    /\ failed_response_counts' = (status_code :> 1) @@ failed_response_counts
    /\ failed_response_reasons' =
           IF status_code \in DOMAIN failed_response_reasons
           THEN [failed_response_reasons EXCEPT
                    ![status_code] = @ \cup {reason}]
           ELSE (status_code :> SetOfString(reason)) @@ failed_response_reasons
    /\ UNCHANGED <<total_successful_requests, total_kill_requests,
                   current_successful_requests, current_kill_requests>>

\* count_failed_request that forgets total_num_requests
count_failed_request_nototal(status_code, reason) ==
    /\ total_failed_requests' = total_failed_requests + 1
    /\ current_num_requests' = current_num_requests + 1
    /\ current_failed_requests' = current_failed_requests + 1
    /\ failed_response_counts' =
           (status_code :> (Get(failed_response_counts, status_code, 0) + 1))
               @@ failed_response_counts
    /\ failed_response_reasons' =
           IF status_code \in DOMAIN failed_response_reasons
           THEN [failed_response_reasons EXCEPT
                    ![status_code] = @ \cup {reason}]
           ELSE (status_code :> SetOfString(reason)) @@ failed_response_reasons
    /\ UNCHANGED <<total_num_requests, total_successful_requests,
                   total_kill_requests, current_successful_requests,
                   current_kill_requests>>

\* Pinger.count_failed_request
count_failed_request(status_code, reason) ==
    /\ total_num_requests' = total_num_requests + 1
    /\ total_failed_requests' = total_failed_requests + 1
    /\ current_num_requests' = current_num_requests + 1
    /\ current_failed_requests' = current_failed_requests + 1
    /\ failed_response_counts' =
           (status_code :> (Get(failed_response_counts, status_code, 0) + 1))
               @@ failed_response_counts
    /\ failed_response_reasons' =
           IF status_code \in DOMAIN failed_response_reasons
           THEN [failed_response_reasons EXCEPT
                    ![status_code] = @ \cup {reason}]
           ELSE (status_code :> SetOfString(reason)) @@ failed_response_reasons
    /\ UNCHANGED <<total_successful_requests, total_kill_requests,
                   current_successful_requests, current_kill_requests>>

\* Pinger.stop_requesting
stop_requesting ==
    /\ live' = FALSE
    /\ reset_current_counters

\* GET /stop, on a worker thread
Stop ==
    /\ stop_requesting
    /\ stopped' = {t \in Tasks : pc[t] \in LoopPcs}
    /\ UNCHANGED <<settings, totals, failures, calls, on_loop, reconf, seen>>

\* start_requesting without the test of live
StartRequesting_notest(t) ==
    /\ pc[t] \notin LoopPcs
    /\ on_loop = 0
    /\ live' = TRUE
    /\ pc' = [pc EXCEPT ![t] = "while"]
    /\ on_loop' = t
    /\ UNCHANGED <<settings, counters, failures, json_payload, sent_at, reconf,
                   seen, stopped>>

\* GET /start: the test of live and, when not live, live = True.
\* pc "already": the call returned "Already sending requests."
StartRequesting(t) ==
    /\ pc[t] \notin LoopPcs
    /\ on_loop = 0
    /\ IF live
       THEN /\ pc' = [pc EXCEPT ![t] = "already"]
            /\ UNCHANGED <<live, on_loop>>
       ELSE /\ live' = TRUE
            /\ pc' = [pc EXCEPT ![t] = "while"]
            /\ on_loop' = t
    /\ UNCHANGED <<settings, counters, failures, json_payload, sent_at, reconf,
                   seen, stopped>>

\* the loop of start_requesting left at its first test whatever live is
LoopHead_return(t) ==
    /\ pc[t] = "while"
    /\ on_loop = t
    /\ pc' = [pc EXCEPT ![t] = "returned"]
    /\ on_loop' = 0
    /\ stopped' = stopped \ {t}
    /\ UNCHANGED <<settings, live, counters, failures, json_payload, sent_at,
                   reconf, seen>>

\* `while self.live:` and the building of the payload, up to requests.post.
\* pc "returned": the loop is over and the call returned None
LoopHead(t) ==
    /\ pc[t] = "while"
    /\ on_loop = t
    /\ IF live
       THEN /\ total_num_requests < MaxRequests
            /\ json_payload' = [json_payload EXCEPT
                   ![t] = IF send_kill_request THEN KILL ELSE SPARE]
            /\ sent_at' = [sent_at EXCEPT ![t] = current_num_requests]
            /\ pc' = [pc EXCEPT ![t] = "post"]
            /\ UNCHANGED <<on_loop, stopped>>
       ELSE /\ pc' = [pc EXCEPT ![t] = "returned"]
            /\ on_loop' = 0
            /\ stopped' = stopped \ {t}
            /\ UNCHANGED <<json_payload, sent_at>>
    /\ UNCHANGED <<settings, live, counters, failures, reconf, seen>>

\* requests.post returned a response: the try block after the call
PostResponse(t, status_code, text) ==
    /\ pc[t] = "post"
    /\ IF send_kill_request
       THEN /\ count_successful_request(TRUE)
            /\ seen' = Plus(seen, <<status_code, text, "kill">>)
       ELSE IF status_code = 200
       THEN /\ count_successful_request(FALSE)
            /\ seen' = Plus(seen, <<status_code, text, "success">>)
       ELSE /\ count_failed_request(status_code, text)
            /\ seen' = Plus(seen, <<status_code, text, "failed">>)
    /\ sent_at' = [sent_at EXCEPT ![t] = 0]
    /\ pc' = [pc EXCEPT ![t] = "sleep"]
    /\ on_loop' = 0
    /\ UNCHANGED <<settings, live, json_payload, reconf, stopped>>

\* the exception of requests.post leaves the loop and the call, uncounted
PostException_propagate(t, e) ==
    /\ pc[t] = "post"
    /\ sent_at' = [sent_at EXCEPT ![t] = 0]
    /\ pc' = [pc EXCEPT ![t] = "returned"]
    /\ on_loop' = 0
    /\ stopped' = stopped \ {t}
    /\ UNCHANGED <<settings, live, counters, failures, json_payload, reconf,
                   seen>>

\* requests.post raised: the except block
PostException(t, e) ==
    /\ pc[t] = "post"
    /\ count_failed_request(-1, e)
    /\ seen' = Plus(seen, <<-1, e, "failed">>)
    /\ sent_at' = [sent_at EXCEPT ![t] = 0]
    /\ pc' = [pc EXCEPT ![t] = "sleep"]
    /\ on_loop' = 0
    /\ UNCHANGED <<settings, live, json_payload, reconf, stopped>>

\* asyncio.sleep(2) is over and the event loop resumes the coroutine
SleepDone(t) ==
    /\ pc[t] = "sleep"
    /\ on_loop = 0
    /\ pc' = [pc EXCEPT ![t] = "while"]
    /\ on_loop' = t
    /\ UNCHANGED <<settings, live, counters, failures, json_payload, sent_at,
                   reconf, seen, stopped>>

\* reconfigure without the call of stop_requesting
ReconfigureCall_nostop(c) ==
    /\ rpc # "called"
    /\ on_loop = 0
    /\ UNCHANGED stopped
    /\ config' = c
    /\ was_live' = live
    /\ rpc' = "called"
    /\ on_loop' = -1
    /\ UNCHANGED <<settings, live, counters, failures, calls, seen>>

\* reconfigure is called: self.stop_requesting()
ReconfigureCall(c) ==
    /\ rpc # "called"
    /\ on_loop = 0
    /\ stop_requesting
    /\ stopped' = {t \in Tasks : pc[t] \in LoopPcs}
    /\ config' = c
    /\ was_live' = live
    /\ rpc' = "called"
    /\ on_loop' = -1
    /\ UNCHANGED <<settings, totals, failures, calls, seen>>

\* reconfigure that keeps the previous value of a setting the configuration omits
ReconfigureApply_merge ==
    /\ rpc = "called"
    /\ kill_interval' = Get(config, "kill_interval", kill_interval)
    /\ target_url' = Get(config, "target_url", target_url)
    /\ bearer_token' = Get(config, "bearer_token", bearer_token)
    /\ rpc' = "returned"
    /\ on_loop' = 0
    /\ UNCHANGED <<live, counters, failures, calls, config, was_live, seen,
                   stopped>>

\* the three assignments of reconfigure, and its return
ReconfigureApply ==
    /\ rpc = "called"
    /\ kill_interval' = Get(config, "kill_interval", DEFAULT_KILL_INTERVAL)
    /\ target_url' = Get(config, "target_url", DEFAULT_TARGET_URL)
    /\ bearer_token' = Get(config, "bearer_token", DEFAULT_BEARER_TOKEN)
    /\ rpc' = "returned"
    /\ on_loop' = 0
    /\ UNCHANGED <<live, counters, failures, calls, config, was_live, seen,
                   stopped>>

Next ==
    \/ Stop /\ UNCHANGED rvars
    \/ \E t \in Tasks : StartRequesting(t) /\ UNCHANGED rvars
    \/ \E t \in Tasks : LoopHead(t) /\ UNCHANGED rvars
    \/ \E t \in Tasks, r \in Responses :
          PostResponse(t, r[1], r[2]) /\ UNCHANGED rvars
    \/ \E t \in Tasks, e \in ExceptionReprs :
          PostException(t, e) /\ UNCHANGED rvars
    \/ \E t \in Tasks : SleepDone(t) /\ UNCHANGED rvars
    \/ \E c \in Configs : ReconfigureCall(c) /\ UNCHANGED rvars
    \/ ReconfigureApply /\ UNCHANGED rvars

Spec == Init /\ [][Next]_vars

\* ---------------------------------------------------------------------
\* The Receiver and NodeKiller deployments of src/receiver.py

\* the process of Receiver replica r is running
ReplicaAlive(r) == node_alive \/ ~colocated[r]

\* a probe reaches Receiver.__call__ of replica r, which waits for its body
ReceiverCall(q, r, body) ==
    /\ rq[q] = "none"
    /\ ReplicaAlive(r)
    /\ rq' = [rq EXCEPT ![q] = "received"]
    /\ request_json' = [request_json EXCEPT ![q] = body]
    /\ replica' = [replica EXCEPT ![q] = r]
    /\ UNCHANGED <<colocated, node_alive, kcall, terminations, pvars>>

\* Receiver.__call__ that takes any non-empty flag for a kill instruction
ReceiverBody_truthy(q) ==
    /\ rq[q] = "received"
    /\ LET kill_node == Get(request_json[q], "kill_node", "False") IN
       IF kill_node # ""
       THEN /\ kcall' = [kcall EXCEPT ![q] = "queued"]
            /\ rq' = [rq EXCEPT ![q] = "waiting"]
       ELSE /\ rq' = [rq EXCEPT ![q] = "answered"]
            /\ UNCHANGED kcall
    /\ UNCHANGED <<colocated, node_alive, request_json, replica, terminations,
                   pvars>>

\* Receiver.__call__ after `await request.json()`: the test of the flag, the
\* call of kill_node.remote() and, without the flag, the return
ReceiverBody(q) ==
    /\ rq[q] = "received"
    /\ LET kill_node == Get(request_json[q], "kill_node", "False") IN
       IF kill_node = "True"
       THEN /\ kcall' = [kcall EXCEPT ![q] = "queued"]
            /\ rq' = [rq EXCEPT ![q] = "waiting"]
       ELSE /\ rq' = [rq EXCEPT ![q] = "answered"]
            /\ UNCHANGED kcall
    /\ UNCHANGED <<colocated, node_alive, request_json, replica, terminations,
                   pvars>>

\* NodeKiller.kill_node starts: list_actors inside try/except, whose failure
\* is swallowed, and the console output
KillNodeList(q) ==
    /\ kcall[q] = "queued"
    /\ node_alive
    /\ kcall' = [kcall EXCEPT ![q] = "running"]
    /\ UNCHANGED <<colocated, node_alive, rq, request_json, replica,
                   terminations, pvars>>

\* subprocess.call(["ray", "stop", "-f"]): with returncode 0 the node stops,
\* with every process on it; otherwise kill_node returns ""
KillNodeStop(q, returncode) ==
    /\ kcall[q] = "running"
    /\ IF returncode = 0
       THEN /\ node_alive' = FALSE
            /\ terminations' = terminations + 1
            /\ kcall' = [p \in Probes |->
                   IF kcall[p] = "running" THEN "killed" ELSE kcall[p]]
            /\ rq' = [p \in Probes |->
                   IF rq[p] \in {"received", "waiting"} /\ colocated[replica[p]]
                   THEN "lost" ELSE rq[p]]
       ELSE /\ kcall' = [kcall EXCEPT ![q] = "done"]
            /\ UNCHANGED <<node_alive, terminations, rq>>
    /\ UNCHANGED <<colocated, request_json, replica, pvars>>

\* kill_node.remote() for a NodeKiller that has stopped: the call fails
KillNodeUnreachable(q) ==
    /\ kcall[q] = "queued"
    /\ ~node_alive
    /\ kcall' = [kcall EXCEPT ![q] = "error"]
    /\ UNCHANGED <<colocated, node_alive, rq, request_json, replica,
                   terminations, pvars>>

\* the wait on kill_node replaced by an await that raises its error
WaitDone_raise(q) ==
    /\ rq[q] = "waiting"
    /\ kcall[q] \in {"done", "error", "killed"}
    /\ rq' = [rq EXCEPT ![q] = IF kcall[q] = "done" THEN "answered"
                                ELSE "failed"]
    /\ UNCHANGED <<colocated, node_alive, request_json, replica, kcall,
                   terminations, pvars>>

\* asyncio.wait returns because the call of kill_node ended, with a result
\* or with an error (asyncio.wait does not raise it); the acknowledgment
WaitDone(q) ==
    /\ rq[q] = "waiting"
    /\ kcall[q] \in {"done", "error", "killed"}
    /\ rq' = [rq EXCEPT ![q] = "answered"]
    /\ UNCHANGED <<colocated, node_alive, request_json, replica, kcall,
                   terminations, pvars>>

\* the wait on kill_node without a timeout
WaitTimeout_never(q) ==
    /\ rq[q] = "waiting"
    /\ kcall[q] \in {"done", "error", "killed"}
    /\ rq' = [rq EXCEPT ![q] = "answered"]
    /\ UNCHANGED <<colocated, node_alive, request_json, replica, kcall,
                   terminations, pvars>>

\* asyncio.wait returns because its timeout of 10 expired; the acknowledgment
WaitTimeout(q) ==
    /\ rq[q] = "waiting"
    /\ rq' = [rq EXCEPT ![q] = "answered"]
    /\ UNCHANGED <<colocated, node_alive, request_json, replica, kcall,
                   terminations, pvars>>

ReceiverInit ==
    /\ PingerInit
    /\ colocated \in [Replicas -> BOOLEAN]
    /\ NoProbes

ReceiverNext ==
    \/ \E q \in Probes, r \in Replicas, body \in Bodies : ReceiverCall(q, r, body)
    \/ \E q \in Probes : ReceiverBody(q)
    \/ \E q \in Probes : KillNodeList(q)
    \/ \E q \in Probes, returncode \in {0, 1} : KillNodeStop(q, returncode)
    \/ \E q \in Probes : KillNodeUnreachable(q)
    \/ \E q \in Probes : WaitDone(q)
    \/ \E q \in Probes : WaitTimeout(q)

\* The event loop of a running replica resumes a handler whose body has
\* arrived and fires a timeout that has expired.
ReceiverSpec ==
    /\ ReceiverInit
    /\ [][ReceiverNext]_vars
    /\ \A q \in Probes : WF_vars(ReceiverBody(q)) /\ WF_vars(WaitTimeout(q))

\* ---------------------------------------------------------------------
\* Definitions used by the properties

Zeros == <<0, 0, 0, 0>>

\* a step in which the request of call t is counted
Counted(t) == pc[t] = "post" /\ pc'[t] = "sleep"

\* the entry that a counting step adds to the history
NewEntry == CHOOSE x \in DOMAIN seen' : seen'[x] = Get(seen, x, 0) + 1

\* what a counting step did to the counters
KillCounted ==
    /\ total_kill_requests' = total_kill_requests + 1
    /\ current_kill_requests' = current_kill_requests + 1
SuccessCounted ==
    /\ total_successful_requests' = total_successful_requests + 1
    /\ current_successful_requests' = current_successful_requests + 1
    /\ UNCHANGED <<total_failed_requests, current_failed_requests, failures>>
FailedCounted(c) ==
    /\ total_failed_requests' = total_failed_requests + 1
    /\ current_failed_requests' = current_failed_requests + 1
    /\ failed_response_counts'[c] = Get(failed_response_counts, c, 0) + 1
    /\ UNCHANGED <<total_successful_requests, current_successful_requests,
                   total_kill_requests, current_kill_requests>>

\* the requests counted as failed under status code c, from the history
FailedEntries(c) == {x \in DOMAIN seen : x[1] = c /\ x[3] = "failed"}
RECURSIVE BagSum(_, _)
BagSum(b, S) ==
    IF S = {} THEN 0
    ELSE LET x == CHOOSE y \in S : TRUE IN b[x] + BagSum(b, S \ {x})
FailedCodes == {x[1] : x \in {y \in DOMAIN seen : y[3] = "failed"}}

\* the number of calls of start_requesting that are inside the loop
Loops == Cardinality({t \in Tasks : pc[t] \in LoopPcs})
LoopsAfter == Cardinality({t \in Tasks : pc'[t] \in LoopPcs})

\* ---------------------------------------------------------------------
\* C1: in every reachable state the total number of requests is the sum of
\* the successful and the failed requests.
C1_TotalIsSuccessPlusFailed ==
    total_num_requests = total_successful_requests + total_failed_requests

\* C1 witness: a success, a kill request, a failed response and an exception
\* have all been counted.
C1_Witness ==
    /\ total_successful_requests > total_kill_requests
    /\ total_kill_requests > 0
    /\ -1 \in DOMAIN failed_response_counts
    /\ total_num_requests = MaxRequests

\* C2 (as claimed): whenever live is false the four window counters are 0.
C2_WindowZeroWhenNotLive == ~live => currents = Zeros

\* C3 (as claimed): for every status code, failed_response_counts holds the
\* number of the requests counted as failed under it and
\* failed_response_reasons holds exactly the set of their whole reasons.
C3_FailureAggregation ==
    /\ DOMAIN failed_response_counts = FailedCodes
    /\ DOMAIN failed_response_reasons = FailedCodes
    /\ \A c \in FailedCodes :
          /\ failed_response_counts[c] = BagSum(seen, FailedEntries(c))
          /\ failed_response_reasons[c] = {x[2] : x \in FailedEntries(c)}

\* C4 (as claimed): with kill_interval = N > 0 a request is counted as a kill
\* request exactly when its window position at send time is N-1 modulo N.
C4_KillAtSendPositions ==
    [][\A t \in Tasks :
          (Counted(t) /\ kill_interval > 0) =>
              (KillCounted <=>
                  sent_at[t] % kill_interval = kill_interval - 1)]_vars

\* C4 (amended): with kill_interval = N > 0 a request is counted as a kill
\* request exactly when it got an HTTP response and current_num_requests,
\* read again when the response is processed, is N-1 modulo N; that value is
\* the window position at send time, or 0 after a reset of the window while
\* the request was in flight.  A request with the SPARE payload is never
\* counted as a kill request.
C4_KillAtCountPositions ==
    [][\A t \in Tasks :
          (Counted(t) /\ kill_interval > 0) =>
              /\ KillCounted <=>
                    /\ NewEntry[1] # -1
                    /\ current_num_requests % kill_interval = kill_interval - 1
              /\ ~KillCounted =>
                    UNCHANGED <<total_kill_requests, current_kill_requests>>
              /\ current_num_requests \in {sent_at[t], 0}
              /\ KillCounted => json_payload[t] = KILL]_vars

\* C4 witness: with kill_interval = 2 the requests at positions 0 and 1 got
\* responses; one kill request is counted in a window of at least 2 requests.
C4_Witness ==
    /\ kill_interval = 2
    /\ current_num_requests >= 2
    /\ current_kill_requests = 1
    /\ total_kill_requests = 1
    /\ -1 \notin DOMAIN failed_response_counts

C6_ResetOnStop ==
    [][(Stop \/ (live /\ ~live')) =>
          /\ ~live'
          /\ currents' = Zeros
          /\ UNCHANGED <<totals, failures, settings>>]_vars

\* C6 witness: stopped, without any reconfigure, after requests of which some
\* failed: the window is 0 and the lifetime counters are not.
C6_Witness ==
    /\ ~live
    /\ rpc = "uncalled"
    /\ currents = Zeros
    /\ total_successful_requests > 0
    /\ total_failed_requests > 0

\* C7: a call of start while live is true returns "Already sending
\* requests.", leaves live true, changes no counter and starts no loop.
C7_IdempotentStart ==
    [][\A t \in Tasks :
          (live /\ pc[t] \notin LoopPcs /\ pc'[t] # pc[t]) =>
              /\ pc'[t] = "already"
              /\ live'
              /\ LoopsAfter = Loops
              /\ UNCHANGED <<counters, failures, settings>>]_vars

\* C7 witness: a call returned "Already sending requests." while another call
\* is inside the loop and requests have been counted.
C7_Witness ==
    /\ live
    /\ \E t \in Tasks : pc[t] = "already"
    /\ Loops = 1
    /\ current_num_requests > 0

\* C8: reconfigure stops first: when it is called live becomes false and
\* the window counters 0 with the settings untouched; the settings change only
\* in a step that starts and ends with live false and the window counters 0;
\* live is false when reconfigure returns.
C8_ReconfigureForcesStop ==
    [][/\ (rpc # "called" /\ rpc' = "called") =>
              (~live' /\ currents' = Zeros /\ settings' = settings)
       /\ settings' # settings =>
              (~live /\ currents = Zeros /\ ~live' /\ currents' = Zeros)
       /\ (rpc = "called" /\ rpc' = "returned") => ~live']_vars

\* C8 witness: reconfigure was called while live was true, with requests in
\* the window, and has returned with new settings.
C8_Witness ==
    /\ rpc = "returned"
    /\ was_live
    /\ ~live
    /\ kill_interval = 2
    /\ total_num_requests > 0
    /\ \E t \in Tasks : pc[t] = "sleep"

\* C9: after reconfigure returned, each setting is the value of the
\* configuration when it has one and the default otherwise.
C9_DefaultReplacement ==
    rpc = "returned" =>
        /\ kill_interval = Get(config, "kill_interval", DEFAULT_KILL_INTERVAL)
        /\ target_url = Get(config, "target_url", DEFAULT_TARGET_URL)
        /\ bearer_token = Get(config, "bearer_token", DEFAULT_BEARER_TOKEN)

\* C9 witness: reconfigure returned from an empty configuration after kill
\* requests, which only an earlier configuration with a small kill interval
\* allows: the three settings are the defaults.
C9_Witness ==
    /\ rpc = "returned"
    /\ config = <<>>
    /\ total_kill_requests > 0
    /\ kill_interval = DEFAULT_KILL_INTERVAL
    /\ target_url = DEFAULT_TARGET_URL
    /\ bearer_token = DEFAULT_BEARER_TOKEN

\* C10 (as claimed): an exception is counted as failed under -1; otherwise a
\* request sent with KILL is counted as successful and as a kill request;
\* otherwise status 200 is counted as successful; otherwise the request is
\* counted as failed under its status code.
C10_ClassificationPriority ==
    [][\A t \in Tasks :
          Counted(t) =>
              LET x == NewEntry IN
              IF x[1] = -1 THEN FailedCounted(-1) /\ ~KillCounted
              ELSE IF json_payload[t] = KILL THEN SuccessCounted /\ KillCounted
              ELSE IF x[1] = 200 THEN SuccessCounted /\ ~KillCounted
              ELSE FailedCounted(x[1]) /\ ~KillCounted]_vars


\* the entries of the history with status code c, and with class k
StatusEntries(c) == {x \in DOMAIN seen : x[1] = c}
ClassEntries(k) == {x \in DOMAIN seen : x[3] = k}
SeenCodes == {x[1] : x \in DOMAIN seen}

\* C11: as long as no request was counted as a kill request, the counters are
\* the counts of the outcomes: total_num_requests is the number of counted
\* requests, total_successful_requests the number of 200 responses,
\* total_failed_requests the number of the other outcomes, and
\* failed_response_counts[c] the number of outcomes with status code c.
C11_CountersAreOutcomeCounts ==
    ClassEntries("kill") = {} =>
        /\ total_num_requests = BagSum(seen, DOMAIN seen)
        /\ total_successful_requests = BagSum(seen, StatusEntries(200))
        /\ total_failed_requests =
               BagSum(seen, DOMAIN seen \ StatusEntries(200))
        /\ DOMAIN failed_response_counts = SeenCodes \ {200}
        /\ \A c \in SeenCodes \ {200} :
               failed_response_counts[c] = BagSum(seen, StatusEntries(c))

\* C11 witness: two 200 responses and a failed response, no kill request,
\* counted from a fresh instance.
C11_Witness ==
    /\ ClassEntries("kill") = {}
    /\ total_num_requests = 3
    /\ total_successful_requests = 2
    /\ total_failed_requests = 1
    /\ failed_response_counts = (503 :> 1)

\* C12: total_kill_requests never exceeds total_successful_requests, and the
\* requests counted as kill requests are counted among the successful ones.
C12_KillsAreSuccesses ==
    /\ total_kill_requests <= total_successful_requests
    /\ total_kill_requests = BagSum(seen, ClassEntries("kill"))
    /\ total_successful_requests =
           BagSum(seen, ClassEntries("kill") \cup ClassEntries("success"))

\* C12 witness: a kill request answered with a status other than 200 and a
\* plain success have been counted.
C12_Witness ==
    /\ \E x \in ClassEntries("kill") : x[1] # 200
    /\ total_kill_requests > 0
    /\ total_successful_requests > total_kill_requests

\* C17 (as claimed): at most one call of start_requesting is inside the send
\* loop at any time.
C17_AtMostOneLoop == Loops <= 1

\* C19: while live is true a call of start_requesting is inside the send
\* loop; a failed request does not end the loop.
C19_LiveHasLoop == live => Loops >= 1

\* C19 witness: live, with a loop pending after an exception and a failed
\* response have been counted.
C19_Witness ==
    /\ live
    /\ Loops >= 1
    /\ {-1, 503} \subseteq DOMAIN failed_response_counts

\* C20 (as claimed): a request that got an HTTP response is counted as a kill
\* request exactly when it was sent with the KILL payload.
C20_KillDecisionConsistent ==
    [][\A t \in Tasks :
          (Counted(t) /\ NewEntry[1] # -1) =>
              (KillCounted <=> json_payload[t] = KILL)]_vars

\* C13: while kill_interval <= 0 no request is sent with the KILL payload and
\* no request is counted as a kill request: total_kill_requests and
\* current_kill_requests do not increase.
C13_KillDisabled ==
    [][kill_interval <= 0 =>
          /\ \A t \in Tasks :
                /\ pc[t] = "post" => json_payload[t] = SPARE
                /\ pc'[t] = "post" => json_payload'[t] = SPARE
          /\ total_kill_requests' = total_kill_requests
          /\ current_kill_requests' <= current_kill_requests]_vars

\* C13 witness: kill requests were counted, then reconfigure set
\* kill_interval to 0 and a request was counted in the new window without
\* being a kill request.
C13_Witness ==
    /\ kill_interval = 0
    /\ total_kill_requests > 0
    /\ current_num_requests > 0
    /\ current_kill_requests = 0
    /\ live

\* C18 (as claimed): a call that was inside the loop when a stop ran sends no
\* further request: its next loop test does not go on to requests.post.
C18_StoppedLoopSendsNothing ==
    [][\A t \in stopped : pc[t] # "post" => pc'[t] # "post"]_vars

\* ---------------------------------------------------------------------
\* Properties of the Receiver, under ReceiverSpec

\* probe q carries the kill flag with the value "True"
Flagged(q) ==
    /\ "kill_node" \in DOMAIN request_json[q]
    /\ request_json[q]["kill_node"] = "True"

C15_AtMostOneTermination ==
    /\ terminations <= 1
    /\ ~node_alive => \A q \in Probes : kcall[q] # "running"
    /\ \A q \in Probes : rq[q] # "failed"

\* C15 witness: two probes with the kill flag; the node stopped once; the
\* call of kill_node of the second failed and its probe was acknowledged.
C15_Witness ==
    \E q1, q2 \in Probes :
        /\ q1 # q2
        /\ kcall[q1] = "killed"
        /\ kcall[q2] = "error"
        /\ rq[q2] = "answered"
        /\ terminations = 1

\* C16: kill_node is called for a probe exactly when the probe carries the
\* kill flag with the value "True".
C16_KillIffFlagTrue ==
    \A q \in Probes :
        /\ kcall[q] # "none" => Flagged(q)
        /\ rq[q] \in {"waiting", "answered"} => (kcall[q] # "none" <=> Flagged(q))

\* C16 witness: a probe with "True" whose kill_node was called, and a probe
\* with another value of the flag acknowledged without a call.
C16_Witness ==
    \E q1, q2 \in Probes :
        /\ Flagged(q1) /\ kcall[q1] # "none"
        /\ "kill_node" \in DOMAIN request_json[q2]
        /\ ~Flagged(q2) /\ rq[q2] = "answered" /\ kcall[q2] = "none"

====
